---- MODULE Spec2Model ----
(***************************************************************************)
(* A model of two operations of the database core:                         *)
(*   - iam::signup / iam::signup::sc   (lib/src/iam/signup.rs)             *)
(*   - DeleteStatement::compute        (src/sql/statements/delete.rs)      *)
(* Each operation is cut at its .await points; the code between two        *)
(* suspension points is one action.                                        *)
(***************************************************************************)
EXTENDS Integers, Sequences, FiniteSets, TLC

VARIABLES
    pc,        \* position of the running call: "idle", a step label, or "done"
    session,   \* the caller's Session (tk, ns, db, sc, sd, au)
    store,     \* the records the datastore holds
    vars,      \* signup: the `vars` Object of the call
    args,      \* signup: the ns, db, sc Strings handed to sc()
    sv,        \* signup: the scope definition get_sc returned
    val,       \* signup: what kvs.compute returned
    sess,      \* signup: the session handed to kvs.compute
    bound,     \* signup: the variables handed to kvs.compute
    tx,        \* signup: the transaction sc() holds
    stm,       \* delete: the DeleteStatement being computed
    i,         \* delete: the Iterator of the statement
    w,         \* delete: index of the next target of `what`
    sql,       \* parser: the statement given to delete(), in its pieces
    parsed,    \* parser: what delete(sql) returned
    text,      \* parser: the parsed statement as Display writes it
    again,     \* parser: what delete(text) returned
    result,    \* the value returned to the caller
    calls,     \* how often each collaborator has been called in this call
    old        \* session and store as they were when the call began

vars_sig == <<vars, args, sv, val, sess, bound, tx>>
vars_del == <<stm, i, w>>
vars_par == <<sql, parsed, text, again>>
allvars == <<pc, session, store, vars, args, sv, val, sess, bound, tx, stm, i, w,
             sql, parsed, text, again, result, calls, old>>

-----------------------------------------------------------------------------
(* Bounds of the model *)

\* record identifiers are 1..MaxId
MaxId == 2
\* milliseconds the clock may advance between two reads of Utc::now()
MaxDrift == 1
\* the longest `what` list of a DELETE statement
MaxWhat == 2
\* the most clauses written after the targets of a DELETE statement
MaxClauses == 3

-----------------------------------------------------------------------------
(* Option<T> and Result<T, Error> *)

None == <<>>
Some(x) == <<x>>
Unwrap(o) == o[1]

Pending == [kind |-> "Pending", val |-> None, err |-> None]
Ok(v) == [kind |-> "Ok", val |-> v, err |-> None]
Err(e) == [kind |-> "Err", val |-> None, err |-> Some(e)]

\* an Error: its variant and the value it carries, if any
Error(variant) == [error |-> variant, value |-> None]
ErrorWith(variant, v) == [error |-> variant, value |-> Some(v)]
InvalidAuth == Error("InvalidAuth")

-----------------------------------------------------------------------------
(* Values *)

Strand(s) == [kind |-> "Strand", s |-> s]
Number(s) == [kind |-> "Number", s |-> s]

\* Value::to_string: a strand is rendered quoted, a number as its digits
ValueToString(v) == IF v.kind = "Strand" THEN <<"\"", v.s, "\"">> ELSE <<v.s>>

\* Value::to_raw_string: the text of a strand without its quotes; any other
\* value as Display renders it
ToRawString(v) == IF v.kind = "Strand" THEN <<v.s>> ELSE ValueToString(v)

Str(s) == <<s>>

\* record identities (Thing): table and id
Things == [tb : {"user"}, id : 1..MaxId]

\* Display of a Thing: "tb:id"
ThingToString(t) == <<t.tb, ":", t.id>>

\* Thing::to_raw
ThingToRaw(t) == ThingToString(t)

\* Value::from(Thing)
ValueFromThing(t) == [kind |-> "Thing", tb |-> t.tb, id |-> t.id]

-----------------------------------------------------------------------------
(* Session, Actor, Level *)

LevelNone == [kind |-> "None", ns |-> None, db |-> None, sc |-> None]
LevelScope(ns, db, sc) ==
    [kind |-> "Scope", ns |-> Some(ns), db |-> Some(db), sc |-> Some(sc)]
LevelDatabase(ns, db) ==
    [kind |-> "Database", ns |-> Some(ns), db |-> Some(db), sc |-> None]

\* Actor::new(id, roles, level), wrapped by Auth::new
ActorNew(id, roles, level) == [id |-> id, roles |-> roles, level |-> level]

\* Session::default(): no namespace, database, scope, token or document, and
\* an anonymous actor of Level::None
SessionDefault ==
    [tk |-> None, ns |-> None, db |-> None, sc |-> None, sd |-> None,
     au |-> ActorNew(Str("anonymous"), <<>>, LevelNone)]

\* Session::editor().with_ns(ns).with_db(db)
SessionEditor(ns, db) ==
    [tk |-> None, ns |-> Some(ns), db |-> Some(db), sc |-> None, sd |-> None,
     au |-> ActorNew(Str("editor"), <<"Editor">>, LevelDatabase(ns, db))]

-----------------------------------------------------------------------------
(* Scope definitions held by the store *)

SERVER_NAME == "SurrealDB"
HEADER == "HS512"

\* Duration::hours(1), in milliseconds
Hour == 3600000

\* the scopes defined in the store: "user" allows signup and sets a session
\* of 15 minutes, "dflt" allows signup and sets no session duration,
\* "nosignup" has no signup expression
DefinedScopes ==
    {[ns |-> Str("test"), db |-> Str("test"), sc |-> Str("user"),
      code |-> "k1", signup |-> Some("CREATE user"), session |-> Some(900000)],
     [ns |-> Str("test"), db |-> Str("test"), sc |-> Str("dflt"),
      code |-> "k2", signup |-> Some("CREATE user"), session |-> None],
     [ns |-> Str("test"), db |-> Str("test"), sc |-> Str("nosignup"),
      code |-> "k3", signup |-> None, session |-> None]}

\* Transaction::get_sc: the definition of the scope, or an error when there
\* is none
GetSc(ns, db, sc) ==
    LET found == {d \in DefinedScopes : d.ns = ns /\ d.db = db /\ d.sc = sc}
    IN  IF found = {} THEN Err(Error("ScNotFound"))
        ELSE Ok(CHOOSE d \in found : TRUE)

-----------------------------------------------------------------------------
(* Inputs of signup *)

\* An Object is a map from keys to values: a set of <<key, value>> pairs
\* with no key twice.  Object::get
ObjectGet(o, k) ==
    LET m == {p \in o : p[1] = k}
    IN  IF m = {} THEN None ELSE Some((CHOOSE p \in m : TRUE)[2])

\* Option::or_else
OrElse(o, alt) == IF o # None THEN o ELSE alt

\* the values a caller may send under each key; Absent leaves the key out
Absent == [kind |-> "Absent", s |-> ""]
KeyValues ==
    [NS : {Absent, Strand("test")},
     ns : {Absent, Strand("other")},
     DB : {Absent, Strand("test")},
     db : {Absent, Strand("test")},
     SC : {Absent, Strand("user"), Strand("dflt")},
     sc : {Absent, Strand("nosignup"), Number("7")}]
Keys == {"NS", "ns", "DB", "db", "SC", "sc"}
KeyOf(c, k) ==
    CASE k = "NS" -> c.NS [] k = "ns" -> c.ns [] k = "DB" -> c.DB
      [] k = "db" -> c.db [] k = "SC" -> c.SC [] k = "sc" -> c.sc
VarsSet ==
    {{<<k, KeyOf(c, k)>> : k \in {x \in Keys : KeyOf(c, x) # Absent}}
        \cup {<<"pass", Strand("secret")>>} : c \in KeyValues}

NoCalls == [tx |-> 0, get_sc |-> 0, compute |-> 0,
            check |-> 0, eval |-> 0, output |-> 0]
Called(c, f) == [c EXCEPT ![f] = @ + 1]

-----------------------------------------------------------------------------
(* iam::signup::signup *)

\* SignupArgs with a slip: a missing sc is taken to be the empty string
SignupArgs_ScOptional(v) ==
    LET ns == OrElse(ObjectGet(v, "NS"), ObjectGet(v, "ns"))
        db == OrElse(ObjectGet(v, "DB"), ObjectGet(v, "db"))
        sc == OrElse(OrElse(ObjectGet(v, "SC"), ObjectGet(v, "sc")), Some(Strand("")))
    IN  IF ns # None /\ db # None
        THEN Some([ns |-> ToRawString(Unwrap(ns)),
                   db |-> ToRawString(Unwrap(db)),
                   sc |-> ToRawString(Unwrap(sc))])
        ELSE None

\* SignupArgs with a slip: the lower-case key is looked up first
SignupArgs_LowerFirst(v) ==
    LET ns == OrElse(ObjectGet(v, "ns"), ObjectGet(v, "NS"))
        db == OrElse(ObjectGet(v, "db"), ObjectGet(v, "DB"))
        sc == OrElse(ObjectGet(v, "sc"), ObjectGet(v, "SC"))
    IN  IF ns # None /\ db # None /\ sc # None
        THEN Some([ns |-> ToRawString(Unwrap(ns)),
                   db |-> ToRawString(Unwrap(db)),
                   sc |-> ToRawString(Unwrap(sc))])
        ELSE None

\* lines 20-29: the ns, db and sc of the call, when all three are given
SignupArgs(v) ==
    LET ns == OrElse(ObjectGet(v, "NS"), ObjectGet(v, "ns"))
        db == OrElse(ObjectGet(v, "DB"), ObjectGet(v, "db"))
        sc == OrElse(ObjectGet(v, "SC"), ObjectGet(v, "sc"))
    IN  IF ns # None /\ db # None /\ sc # None
        THEN Some([ns |-> ToRawString(Unwrap(ns)),
                   db |-> ToRawString(Unwrap(db)),
                   sc |-> ToRawString(Unwrap(sc))])
        ELSE None

\* signup(kvs, session, vars) up to the first suspension point of sc()
Signup ==
    /\ pc = "idle"
    /\ \E v \in VarsSet :
        /\ vars' = v
        /\ IF SignupArgs(v) # None
           THEN /\ args' = SignupArgs(v)
                /\ pc' = "sc_tx"
                /\ result' = Pending
           ELSE /\ args' = None
                /\ pc' = "done"
                /\ result' = Err(InvalidAuth)
    /\ UNCHANGED <<session, store, sv, val, sess, bound, tx, vars_del, vars_par,
                   calls, old>>

-----------------------------------------------------------------------------
(* iam::signup::sc *)

\* line 46: the transaction asked for, kvs.transaction(false, false): not
\* writeable, not locking
Transaction == [write |-> FALSE, lock |-> FALSE]

\* ScTransaction with a slip: a transaction that does not open is asked for
\* once more
ScTransaction_Retry ==
    /\ pc = "sc_tx"
    /\ \E opened \in BOOLEAN :
        IF opened
        THEN /\ calls' = Called(calls, "tx")
             /\ tx' = Some(Transaction)
             /\ pc' = "sc_get"
             /\ UNCHANGED result
        ELSE /\ calls' = Called(calls, "tx")
             /\ pc' = IF calls.tx = 0 THEN "sc_tx" ELSE "done"
             /\ result' = IF calls.tx = 0 THEN Pending ELSE Err(Error("Tx"))
             /\ UNCHANGED tx
    /\ UNCHANGED <<session, store, vars, args, sv, val, sess, bound, vars_del,
                   vars_par, old>>

\* line 46: kvs.transaction(false, false).await?
ScTransaction ==
    /\ pc = "sc_tx"
    /\ \E opened \in BOOLEAN :
        IF opened
        THEN /\ calls' = Called(calls, "tx")
             /\ tx' = Some(Transaction)
             /\ pc' = "sc_get"
             /\ UNCHANGED result
        ELSE /\ calls' = Called(calls, "tx")
             /\ pc' = "done"
             /\ result' = Err(Error("Tx"))
             /\ UNCHANGED tx
    /\ UNCHANGED <<session, store, vars, args, sv, val, sess, bound, vars_del,
                   vars_par, old>>

\* ComputeSession with a slip: the caller's own session, moved to ns and db
ComputeSession_Caller(s, a) == [s EXCEPT !.ns = Some(a.ns), !.db = Some(a.db)]

\* line 56: the session the signup expression is computed under; s is the
\* caller's session
ComputeSession(s, a) == SessionEditor(a.ns, a.db)

\* lines 48-56 and 113-118: tx.get_sc(&ns, &db, &sc).await and the match on
\* the scope's signup expression
ScGetSc ==
    /\ pc = "sc_get"
    /\ calls' = Called(calls, "get_sc")
    /\ LET a == Unwrap(args)
           r == GetSc(a.ns, a.db, a.sc)
       IN  IF r.kind = "Ok"
           THEN /\ sv' = Some(r.val)
                /\ IF r.val.signup # None
                   THEN /\ sess' = Some(ComputeSession(session, a))
                        /\ bound' = Some(vars)
                        /\ pc' = "sc_compute"
                        /\ UNCHANGED result
                   ELSE /\ pc' = "done"
                        /\ result' = Err(InvalidAuth)
                        /\ UNCHANGED <<sess, bound>>
           ELSE /\ pc' = "done"
                /\ result' = Err(InvalidAuth)
                /\ UNCHANGED <<sv, sess, bound>>
    /\ UNCHANGED <<session, store, vars, args, val, tx, vars_del, vars_par, old>>

\* Value::record: the record identity a value carries
Record(v) == IF v.kind = "Thing" THEN Some([tb |-> v.tb, id |-> v.id]) ELSE None

ValueNone == [kind |-> "None", tb |-> "", id |-> 0]

\* Datastore::compute of a signup expression under a session: the outcomes
\* <<result, store afterwards>>.  An error leaves the store as it was; a
\* success returns the created record, or no record
ComputeOutcomes(st) ==
    {<<Err(Error("Query")), st>>}
        \cup {<<Ok(ValueFromThing(t)), st \cup {t}>> : t \in Things}
        \cup {<<Ok(ValueNone), st>>}
        \cup {<<Ok(ValueNone), st \cup {t}>> : t \in Things}

\* line 58: kvs.compute(val, &sess, vars).await
ScCompute ==
    /\ pc = "sc_compute"
    /\ calls' = Called(calls, "compute")
    /\ \E o \in ComputeOutcomes(store) :
        /\ val' = o[1]
        /\ store' = o[2]
    /\ pc' = "sc_issue"
    /\ UNCHANGED <<session, vars, args, sv, sess, bound, tx, vars_del, vars_par,
                   result, old>>

\* DateTime::timestamp: whole seconds of an instant given in milliseconds
Timestamp(t) == t \div 1000

\* the instants at which claim construction may begin
Instants == {500, 999}

\* lines 66-84: the Claims of the token; now1, now2, now3 are the three reads
\* of Utc::now()
MakeClaims(d, a, r, now1, now2, now3) ==
    [iss |-> Some(SERVER_NAME),
     iat |-> Some(Timestamp(now1)),
     nbf |-> Some(Timestamp(now2)),
     exp |-> Some(Timestamp(IF d.session # None
                            THEN now3 + Unwrap(d.session)
                            ELSE now3 + Hour)),
     ns |-> Some(a.ns),
     db |-> Some(a.db),
     sc |-> Some(a.sc),
     id |-> Some(ThingToRaw(r))]

\* Value::from(Claims): an object of the claims that are set
ClaimsIntoValue(c) == [k \in {x \in DOMAIN c : c[x] # None} |-> Unwrap(c[k])]

\* Authenticate with a slip: the actor is kept and only its level is set
Authenticate_FieldByField(s, a, r, claims) ==
    [s EXCEPT !.tk = Some(ClaimsIntoValue(claims)),
              !.ns = Some(a.ns),
              !.db = Some(a.db),
              !.sc = Some(a.sc),
              !.sd = Some(ValueFromThing(r)),
              !.au.level = LevelScope(a.ns, a.db, a.sc)]

\* Authenticate with a slip: the actor's level names the database twice
Authenticate_LevelDb(s, a, r, claims) ==
    [s EXCEPT !.tk = Some(ClaimsIntoValue(claims)),
              !.ns = Some(a.ns),
              !.db = Some(a.db),
              !.sc = Some(a.sc),
              !.sd = Some(ValueFromThing(r)),
              !.au = ActorNew(ThingToString(r), <<>>, LevelScope(a.ns, a.db, a.db))]

\* lines 88-97: the writes to the caller's session
Authenticate(s, a, r, claims) ==
    [s EXCEPT !.tk = Some(ClaimsIntoValue(claims)),
              !.ns = Some(a.ns),
              !.db = Some(a.db),
              !.sc = Some(a.sc),
              !.sd = Some(ValueFromThing(r)),
              !.au = ActorNew(ThingToString(r), <<>>, LevelScope(a.ns, a.db, a.sc))]

\* jsonwebtoken::encode(&HEADER, &val, &key)
Encode(header, claims, key) == [header |-> header, claims |-> claims, key |-> key]

\* TokenResult with a slip: a token that could not be signed is left out
TokenResult_NoToken(enc) == IF enc.kind = "Ok" THEN Ok(Some(enc.val)) ELSE Ok(None)

\* lines 99-104: what sc() returns for the outcome of encode
TokenResult(enc) == IF enc.kind = "Ok" THEN Ok(Some(enc.val)) ELSE Err(InvalidAuth)

\* ScIssue with a slip: a call that fails puts the store back as it was
ScIssue_Undo ==
    /\ pc = "sc_issue"
    /\ pc' = "done"
    /\ IF val.kind = "Ok" /\ Record(val.val) # None
       THEN \E now1 \in Instants :
            \E now2 \in now1 .. now1 + MaxDrift :
            \E now3 \in now2 .. now2 + MaxDrift :
            \E signed \in BOOLEAN :
               LET r == Unwrap(Record(val.val))
                   d == Unwrap(sv)
                   a == Unwrap(args)
                   claims == MakeClaims(d, a, r, now1, now2, now3)
                   enc == IF signed THEN Ok(Encode(HEADER, claims, d.code))
                                    ELSE Err(Error("Jwt"))
               IN  /\ session' = Authenticate(session, a, r, claims)
                   /\ result' = TokenResult(enc)
                   /\ store' = IF signed THEN store ELSE old.store
       ELSE /\ result' = Err(InvalidAuth)
            /\ store' = old.store
            /\ UNCHANGED session
    /\ UNCHANGED <<vars_sig, vars_del, vars_par, calls, old>>

\* lines 58-111: the match on the computed value, and the token
ScIssue ==
    /\ pc = "sc_issue"
    /\ pc' = "done"
    /\ IF val.kind = "Ok" /\ Record(val.val) # None
       THEN \E now1 \in Instants :
            \E now2 \in now1 .. now1 + MaxDrift :
            \E now3 \in now2 .. now2 + MaxDrift :
            \E signed \in BOOLEAN :
               LET r == Unwrap(Record(val.val))
                   d == Unwrap(sv)
                   a == Unwrap(args)
                   claims == MakeClaims(d, a, r, now1, now2, now3)
                   enc == IF signed THEN Ok(Encode(HEADER, claims, d.code))
                                    ELSE Err(Error("Jwt"))
               IN  /\ session' = Authenticate(session, a, r, claims)
                   /\ result' = TokenResult(enc)
       ELSE /\ result' = Err(InvalidAuth)
            /\ UNCHANGED session
    /\ UNCHANGED <<store, vars_sig, vars_del, vars_par, calls, old>>

\* the call has returned; the connection is ready for the next one
Return ==
    /\ pc = "done"
    /\ pc' = "idle"
    /\ vars' = {} /\ args' = None /\ sv' = None /\ val' = Pending
    /\ sess' = None /\ bound' = None /\ tx' = None
    /\ result' = Pending
    /\ stm' = None /\ i' = None /\ w' = 0
    /\ sql' = <<>> /\ parsed' = Pending /\ text' = <<>> /\ again' = Pending
    /\ calls' = NoCalls
    /\ old' = [session |-> session, store |-> store]
    /\ UNCHANGED <<session, store>>

-----------------------------------------------------------------------------
(* DELETE statements *)

Table(tb) == [kind |-> "Table", tb |-> tb]
Model(tb, lo, hi) == [kind |-> "Model", tb |-> tb, lo |-> lo, hi |-> hi]
Array(items) == [kind |-> "Array", items |-> items]
Object(t) == [kind |-> "Object", id |-> t]
Function(name) == [kind |-> "Function", name |-> name]
Thing(tb, id) == [tb |-> tb, id |-> id]

\* the target expressions a statement may name: one of each kind the
\* iterator accepts, a number, and a function call whose evaluation fails
WhatExprs ==
    {Table("user"),
     ValueFromThing(Thing("user", 1)),
     Model("user", 1, MaxId),
     Array(<<ValueFromThing(Thing("user", MaxId)), ValueFromThing(Thing("user", 1))>>),
     Object(Thing("user", MaxId)),
     Number("5"),
     Function("fail")}

\* Value::compute of a target: a literal evaluates to itself, the function
\* call fails
Compute(e) == IF e.kind = "Function" THEN Err(Error("Query")) ELSE Ok(e)

SeqsUpTo(S, n) == UNION {[1..k -> S] : k \in 0..n}

\* WHERE id = 1
Conds == {[field |-> "id", eq |-> 1]}
Outputs == {"NONE", "BEFORE", "AFTER", "DIFF"}

\* the DeleteStatement structs (lines 20-29)
Statements ==
    [what : SeqsUpTo(WhatExprs, MaxWhat),
     cond : {None} \cup {Some(c) : c \in Conds},
     output : {None} \cup {Some(o) : o \in Outputs},
     timeout : {None, Some(1)}]

-----------------------------------------------------------------------------
(* dbs::Iterator *)

\* Iterator::new(): nothing configured, nothing queued
IteratorNew == [cond |-> None, output |-> None, timeout |-> None, queue |-> <<>>]

\* the ids 1..MaxId in rising order, kept when they satisfy P
RECURSIVE Range(_, _)
Range(lo, hi) == IF lo > hi THEN <<>> ELSE <<lo>> \o Range(lo + 1, hi)

InStore(st, tb, ids) == SelectSeq(ids, LAMBDA n : Thing(tb, n) \in st)
ThingsOf(tb, ids) == [k \in 1..Len(ids) |-> Thing(tb, ids[k])]

\* process_table: every record now in the table
ProcessTable(it, st, v) ==
    [it EXCEPT !.queue = @ \o ThingsOf(v.tb, InStore(st, v.tb, Range(1, MaxId)))]
\* process_thing: that record
ProcessThing(it, st, v) == [it EXCEPT !.queue = Append(@, Thing(v.tb, v.id))]
\* process_model: every record of the range
ProcessModel(it, st, v) ==
    [it EXCEPT !.queue = @ \o ThingsOf(v.tb, Range(v.lo, v.hi))]
\* process_array: every element of the array
ProcessArray(it, st, v) ==
    [it EXCEPT !.queue = @ \o [k \in 1..Len(v.items) |->
                                 Thing(v.items[k].tb, v.items[k].id)]]
\* process_object: the document itself
ProcessObject(it, st, v) == [it EXCEPT !.queue = Append(@, v.id)]

Matches(cond, t) == cond = None \/ t.id = Unwrap(cond).eq

\* the queued records are handled one after the other: a record that is
\* in the store and satisfies the condition is deleted.
\* <<records deleted, in order; store afterwards>>
RECURSIVE Iterate(_, _, _)
Iterate(queue, st, cond) ==
    IF queue = <<>> THEN <<(<<>>), st>>
    ELSE LET t == Head(queue)
             hit == t \in st /\ Matches(cond, t)
             rest == Iterate(Tail(queue), IF hit THEN st \ {t} ELSE st, cond)
         IN  <<(IF hit THEN <<t>> ELSE <<>>) \o rest[1], rest[2]>>

\* the result of a statement in an output mode: nothing, or for each record
\* its value before, its value after, or the change
Render(mode, deleted) ==
    IF mode = None \/ mode = Some("NONE") THEN ValueNone
    ELSE Array([k \in 1..Len(deleted) |->
                  CASE mode = Some("BEFORE") -> <<"doc", deleted[k]>>
                    [] mode = Some("AFTER") -> <<"none">>
                    [] mode = Some("DIFF") -> <<"remove", deleted[k]>>])

\* milliseconds the iterator needs for a queue: one for each record
Elapsed(queue) == Len(queue)

\* Iterator::output: run the queue under the iterator's configuration.
\* <<result, store afterwards>>; a timeout leaves the store as it was
IteratorOutput(it, st) ==
    IF it.timeout # None /\ Elapsed(it.queue) > Unwrap(it.timeout)
    THEN <<Err(Error("QueryTimeout")), st>>
    ELSE LET done == Iterate(it.queue, st, it.cond)
         IN  <<Ok(Render(it.output, done[1])), done[2]>>

-----------------------------------------------------------------------------
(* DeleteStatement::compute *)

\* StatementIterator with a slip: the condition is not handed over
StatementIterator_NoCond(s) == IteratorNew

\* lines 42-46: the iterator of a statement
StatementIterator(s) == [IteratorNew EXCEPT !.cond = s.cond]

\* Check with a slip: the gate is not consulted
Check_Skipped(c, allowed) == <<c, TRUE>>

\* line 40: exe.check(opt, Level::No)?, whose answer is `allowed`.
\* <<the calls made so far, the answer>>
Check(c, allowed) == <<Called(c, "check"), allowed>>

\* lines 40-46: the permission gate, then the iterator is set up
DeleteCheck ==
    /\ pc = "idle"
    /\ \E s \in Statements, allowed \in BOOLEAN :
        /\ stm' = Some(s)
        /\ calls' = Check(calls, allowed)[1]
        /\ IF Check(calls, allowed)[2]
           THEN /\ i' = Some(StatementIterator(s))
                /\ w' = 1
                /\ pc' = IF s.what = <<>> THEN "del_output" ELSE "del_what"
                /\ UNCHANGED result
           ELSE /\ pc' = "done"
                /\ result' = Err(Error("QueryPermissions"))
                /\ UNCHANGED <<i, w>>
    /\ UNCHANGED <<session, store, vars_sig, vars_par, old>>

\* Dispatch with a slip: a value of another kind is passed over
Dispatch_PassOver(it, st, v) ==
    CASE v.kind = "Table" -> Ok(ProcessTable(it, st, v))
      [] v.kind = "Thing" -> Ok(ProcessThing(it, st, v))
      [] v.kind = "Model" -> Ok(ProcessModel(it, st, v))
      [] v.kind = "Array" -> Ok(ProcessArray(it, st, v))
      [] v.kind = "Object" -> Ok(ProcessObject(it, st, v))
      [] OTHER -> Ok(it)

\* lines 50-69: the match that queues a target value on the iterator, or
\* refuses it
Dispatch(it, st, v) ==
    CASE v.kind = "Table" -> Ok(ProcessTable(it, st, v))
      [] v.kind = "Thing" -> Ok(ProcessThing(it, st, v))
      [] v.kind = "Model" -> Ok(ProcessModel(it, st, v))
      [] v.kind = "Array" -> Ok(ProcessArray(it, st, v))
      [] v.kind = "Object" -> Ok(ProcessObject(it, st, v))
      [] OTHER -> Err(ErrorWith("DeleteStatementError", v))

\* lines 48-71: one turn of the loop over the targets
DeleteWhat ==
    /\ pc = "del_what"
    /\ calls' = Called(calls, "eval")
    /\ LET s == Unwrap(stm)
           r == Compute(s.what[w])
           d == Dispatch(Unwrap(i), store, r.val)
       IN  IF r.kind = "Err"
           THEN /\ result' = r
                /\ pc' = "done"
                /\ UNCHANGED <<i, w>>
           ELSE IF d.kind = "Err"
           THEN /\ result' = d
                /\ pc' = "done"
                /\ UNCHANGED <<i, w>>
           ELSE /\ i' = Some(d.val)
                /\ w' = w + 1
                /\ pc' = IF w = Len(s.what) THEN "del_output" ELSE "del_what"
                /\ UNCHANGED result
    /\ UNCHANGED <<session, store, vars_sig, vars_par, stm, old>>

\* line 73: i.output(ctx, exe)
DeleteOutput ==
    /\ pc = "del_output"
    /\ calls' = Called(calls, "output")
    /\ LET o == IteratorOutput(Unwrap(i), store)
       IN  /\ result' = o[1]
           /\ store' = o[2]
    /\ pc' = "done"
    /\ UNCHANGED <<session, vars_sig, vars_del, vars_par, old>>

-----------------------------------------------------------------------------
(* Statement text.  A text is a sequence of characters. *)

LowerCase == <<"a", "b", "c", "d", "e", "f", "g", "h", "i", "j", "k", "l", "m", "n", "o", "p", "q", "r", "s", "t", "u", "v", "w", "x", "y", "z">>
UpperCase == <<"A", "B", "C", "D", "E", "F", "G", "H", "I", "J", "K", "L", "M", "N", "O", "P", "Q", "R", "S", "T", "U", "V", "W", "X", "Y", "Z">>
Digits == {"0", "1", "2", "3", "4", "5", "6", "7", "8", "9"}

\* the character without its case
Fold(c) ==
    IF \E k \in 1..26 : c = LowerCase[k]
    THEN UpperCase[CHOOSE k \in 1..26 : c = LowerCase[k]]
    ELSE c

Drop(inp, n) == SubSeq(inp, n + 1, Len(inp))
Take(inp, n) == SubSeq(inp, 1, n)

\* the number of leading characters of inp that are in the set S
RECURSIVE Leading(_, _)
Leading(inp, S) ==
    IF inp # <<>> /\ Head(inp) \in S THEN 1 + Leading(Tail(inp), S) ELSE 0

Letters == {LowerCase[k] : k \in 1..26} \cup {UpperCase[k] : k \in 1..26}

\* what a parser returns: the rest of the input and the value parsed
Parsed(rest, out) == Ok([rest |-> rest, out |-> out])
Failed == Err(Error("Parse"))

\* nom tag_no_case(tag)
TagNoCase(tag, inp) ==
    IF Len(inp) >= Len(tag) /\ \A k \in 1..Len(tag) : Fold(inp[k]) = Fold(tag[k])
    THEN Parsed(Drop(inp, Len(tag)), Take(inp, Len(tag)))
    ELSE Failed

\* shouldbespace: one space or more
ShouldBeSpace(inp) ==
    IF Leading(inp, {" "}) >= 1 THEN Parsed(Drop(inp, Leading(inp, {" "})), <<>>)
    ELSE Failed

\* mightbespace: any number of spaces
MightBeSpace(inp) == Drop(inp, Leading(inp, {" "}))

\* one target of a statement: a table name, or a record `table:id`
What(inp) ==
    LET n == Leading(inp, Letters)
        rest == Drop(inp, n)
    IN  IF n = 0 THEN Failed
        ELSE IF Len(rest) >= 2 /\ rest[1] = ":" /\ rest[2] \in Digits
        THEN Parsed(Drop(rest, 2), [kind |-> "Thing", tb |-> Take(inp, n), id |-> rest[2]])
        ELSE Parsed(rest, [kind |-> "Table", tb |-> Take(inp, n)])

\* whats: targets separated by commas, one at least
RECURSIVE WhatsMore(_, _)
WhatsMore(inp, acc) ==
    LET sep == MightBeSpace(inp)
        next == IF sep # <<>> /\ Head(sep) = ","
                THEN What(MightBeSpace(Tail(sep))) ELSE Failed
    IN  IF next.kind = "Ok"
        THEN WhatsMore(next.val.rest, Append(acc, next.val.out))
        ELSE Parsed(inp, acc)
Whats(inp) ==
    LET first == What(inp)
    IN  IF first.kind = "Ok" THEN WhatsMore(first.val.rest, <<first.val.out>>)
        ELSE Failed

W_DELETE == <<"D", "E", "L", "E", "T", "E">>
W_FROM == <<"F", "R", "O", "M">>
W_WHERE == <<"W", "H", "E", "R", "E">>
W_RETURN == <<"R", "E", "T", "U", "R", "N">>
W_TIMEOUT == <<"T", "I", "M", "E", "O", "U", "T">>
W_NONE == <<"N", "O", "N", "E">>
W_BEFORE == <<"B", "E", "F", "O", "R", "E">>
W_AFTER == <<"A", "F", "T", "E", "R">>
W_DIFF == <<"D", "I", "F", "F">>

\* cond: WHERE and an expression, here a field name
Cond(inp) ==
    LET kw == TagNoCase(W_WHERE, inp)
        sp == IF kw.kind = "Ok" THEN ShouldBeSpace(kw.val.rest) ELSE Failed
        n == IF sp.kind = "Ok" THEN Leading(sp.val.rest, Letters) ELSE 0
    IN  IF n = 0 THEN Failed
        ELSE Parsed(Drop(sp.val.rest, n), [field |-> Take(sp.val.rest, n)])

\* output: RETURN and a mode
Output(inp) ==
    LET kw == TagNoCase(W_RETURN, inp)
        sp == IF kw.kind = "Ok" THEN ShouldBeSpace(kw.val.rest) ELSE Failed
        modes == {m \in {W_NONE, W_BEFORE, W_AFTER, W_DIFF} :
                     sp.kind = "Ok" /\ TagNoCase(m, sp.val.rest).kind = "Ok"}
    IN  IF modes = {} THEN Failed
        ELSE LET m == CHOOSE m \in modes : TRUE
             IN  Parsed(Drop(sp.val.rest, Len(m)), m)

\* timeout: TIMEOUT and a duration in seconds
Timeout(inp) ==
    LET kw == TagNoCase(W_TIMEOUT, inp)
        sp == IF kw.kind = "Ok" THEN ShouldBeSpace(kw.val.rest) ELSE Failed
        n == IF sp.kind = "Ok" THEN Leading(sp.val.rest, Digits) ELSE 0
    IN  IF n = 0 \/ Len(sp.val.rest) < n + 1 \/ sp.val.rest[n + 1] # "s" THEN Failed
        ELSE Parsed(Drop(sp.val.rest, n + 1), [secs |-> Take(sp.val.rest, n)])

\* Display of Values, Cond, Output, Timeout
RECURSIVE ShowWhats(_)
ShowWhat(v) == IF v.kind = "Thing" THEN v.tb \o <<":", v.id>> ELSE v.tb
ShowWhats(what) ==
    IF Len(what) = 1 THEN ShowWhat(what[1])
    ELSE ShowWhat(what[1]) \o <<",", " ">> \o ShowWhats(Tail(what))
ShowCond(c) == W_WHERE \o <<" ">> \o c.field
ShowOutput(o) == W_RETURN \o <<" ">> \o o
ShowTimeout(t) == W_TIMEOUT \o <<" ">> \o t.secs \o <<"s">>

-----------------------------------------------------------------------------
(* sql::statements::delete *)

\* nom opt(p): the result r of p, or nothing with the input untouched
Opt(r, inp) == IF r.kind = "Ok" THEN Parsed(r.val.rest, Some(r.val.out))
               ELSE Parsed(inp, None)

\* line 95: tuple((shouldbespace, tag_no_case("FROM")))
SpaceFrom(inp) ==
    LET sp == ShouldBeSpace(inp)
    IN  IF sp.kind = "Ok" THEN TagNoCase(W_FROM, sp.val.rest) ELSE Failed

\* line 98: preceded(shouldbespace, cond)
SpaceCond(inp) ==
    LET sp == ShouldBeSpace(inp)
    IN  IF sp.kind = "Ok" THEN Cond(sp.val.rest) ELSE Failed

\* line 99: preceded(shouldbespace, output)
SpaceOutput(inp) ==
    LET sp == ShouldBeSpace(inp)
    IN  IF sp.kind = "Ok" THEN Output(sp.val.rest) ELSE Failed

\* line 100: preceded(shouldbespace, timeout)
SpaceTimeout(inp) ==
    LET sp == ShouldBeSpace(inp)
    IN  IF sp.kind = "Ok" THEN Timeout(sp.val.rest) ELSE Failed

\* delete(i), were TIMEOUT taken before RETURN
Delete_TimeoutFirst(inp) ==
    LET kw == TagNoCase(W_DELETE, inp)
        from == Opt(SpaceFrom(kw.val.rest), kw.val.rest)
        sp == ShouldBeSpace(from.val.rest)
        what == Whats(sp.val.rest)
        cond == Opt(SpaceCond(what.val.rest), what.val.rest)
        timeout == Opt(SpaceTimeout(cond.val.rest), cond.val.rest)
        output == Opt(SpaceOutput(timeout.val.rest), timeout.val.rest)
    IN  IF kw.kind = "Err" THEN kw
        ELSE IF sp.kind = "Err" THEN sp
        ELSE IF what.kind = "Err" THEN what
        ELSE Parsed(output.val.rest,
                    [what |-> what.val.out,
                     cond |-> cond.val.out,
                     output |-> output.val.out,
                     timeout |-> timeout.val.out])

\* lines 93-110: delete(i)
Delete(inp) ==
    LET kw == TagNoCase(W_DELETE, inp)
        from == Opt(SpaceFrom(kw.val.rest), kw.val.rest)
        sp == ShouldBeSpace(from.val.rest)
        what == Whats(sp.val.rest)
        cond == Opt(SpaceCond(what.val.rest), what.val.rest)
        output == Opt(SpaceOutput(cond.val.rest), cond.val.rest)
        timeout == Opt(SpaceTimeout(output.val.rest), output.val.rest)
    IN  IF kw.kind = "Err" THEN kw
        ELSE IF sp.kind = "Err" THEN sp
        ELSE IF what.kind = "Err" THEN what
        ELSE Parsed(timeout.val.rest,
                    [what |-> what.val.out,
                     cond |-> cond.val.out,
                     output |-> output.val.out,
                     timeout |-> timeout.val.out])

\* lines 77-91: Display of a DeleteStatement
Display(s) ==
    W_DELETE \o <<" ">> \o ShowWhats(s.what)
        \o (IF s.cond # None THEN <<" ">> \o ShowCond(Unwrap(s.cond)) ELSE <<>>)
        \o (IF s.output # None THEN <<" ">> \o ShowOutput(Unwrap(s.output)) ELSE <<>>)
        \o (IF s.timeout # None THEN <<" ">> \o ShowTimeout(Unwrap(s.timeout)) ELSE <<>>)

\* the statements given to the parser: the keyword in either case, FROM or
\* not, the targets, and clauses in any order
Keywords == {W_DELETE, <<"d", "e", "l", "e", "t", "e">>}
Froms == {<<>>, <<" ", "F", "R", "O", "M">>, <<" ", "f", "r", "o", "m">>}
Targets == {<<"t", "e", "s", "t">>, <<"t">>, <<"f", "r", "o", "m", "a", "g", "e">>, <<"f", "r", "o", "m">>, <<"u", "s", "e", "r", ":", "1">>, <<"t", "e", "s", "t", ",", " ", "u", "s", "e", "r", ":", "1">>}
Clause(kind, txt) == [kind |-> kind, text |-> txt]
Clauses == {Clause("cond", <<"W", "H", "E", "R", "E", " ", "a", "c", "t", "i", "v", "e">>),
            Clause("output", <<"R", "E", "T", "U", "R", "N", " ", "B", "E", "F", "O", "R", "E">>),
            Clause("output", <<"r", "e", "t", "u", "r", "n", " ", "n", "o", "n", "e">>),
            Clause("timeout", <<"T", "I", "M", "E", "O", "U", "T", " ", "1", "s">>)}
ClauseSeqs == {s \in SeqsUpTo(Clauses, MaxClauses) :
                  \A j, k \in 1..Len(s) : s[j] = s[k] => j = k}
Sqls == [kw : Keywords, from : Froms, what : Targets, clauses : ClauseSeqs]

\* the text of clauses, a space before each
RECURSIVE ClauseText(_)
ClauseText(cs) ==
    IF cs = <<>> THEN <<>> ELSE <<" ">> \o Head(cs).text \o ClauseText(Tail(cs))

\* the text of a statement
SqlText(s) == s.kw \o s.from \o <<" ">> \o s.what \o ClauseText(s.clauses)

\* lines 117-121: a statement text is parsed
DeleteParse ==
    /\ pc = "idle"
    /\ \E s \in Sqls :
          /\ sql' = s
          /\ parsed' = Delete(SqlText(s))
    /\ pc' = IF parsed'.kind = "Ok" THEN "parsed" ELSE "done"
    /\ UNCHANGED <<session, store, vars_sig, vars_del, text, again, result, calls, old>>

\* lines 122-123: the statement parsed is written out
DeleteDisplay ==
    /\ pc = "parsed"
    /\ text' = Display(parsed.val.out)
    /\ pc' = "shown"
    /\ UNCHANGED <<session, store, vars_sig, vars_del, sql, parsed, again, result, calls, old>>

\* the text written out is parsed in its turn
DeleteReparse ==
    /\ pc = "shown"
    /\ again' = Delete(text)
    /\ pc' = "done"
    /\ UNCHANGED <<session, store, vars_sig, vars_del, sql, parsed, text, result, calls, old>>

-----------------------------------------------------------------------------

Init ==
    /\ pc = "idle"
    /\ session = SessionDefault
    /\ store \in SUBSET Things
    /\ vars = {} /\ args = None /\ sv = None /\ val = Pending
    /\ sess = None /\ bound = None /\ tx = None
    /\ stm = None /\ i = None /\ w = 0
    /\ sql = <<>> /\ parsed = Pending /\ text = <<>> /\ again = Pending
    /\ result = Pending
    /\ calls = NoCalls
    /\ old = [session |-> session, store |-> store]

NextSignup == Signup \/ ScTransaction \/ ScGetSc \/ ScCompute \/ ScIssue \/ Return
NextDelete == DeleteCheck \/ DeleteWhat \/ DeleteOutput \/ Return
NextParse == DeleteParse \/ DeleteDisplay \/ DeleteReparse \/ Return
Next == NextSignup \/ NextDelete \/ NextParse

Spec == Init /\ [][Next]_allvars
SpecSignup == Init /\ [][NextSignup]_allvars
SpecDelete == Init /\ [][NextDelete]_allvars
SpecParse == Init /\ [][NextParse]_allvars


-----------------------------------------------------------------------------
(* Properties of signup *)

\* a signup call is under way, or has just returned
InSignup == pc # "idle" /\ stm = None
\* a DELETE statement is under way, or has just returned
InDelete == stm # None

SignupFailed == InSignup /\ pc = "done" /\ result.kind = "Err"
SignupSucceeded == InSignup /\ pc = "done" /\ result.kind = "Ok"

\* C1: every error signup returns is Error::InvalidAuth, whichever step
\* failed (opening the transaction included).
C1_EveryErrorIsInvalidAuth ==
    SignupFailed => result.err = Some(InvalidAuth)

\* C2: when signup returns an error, a token-signing failure included, every
\* field of the caller's session has the value it had before the call.
C2_ErrorLeavesSession ==
    SignupFailed => session = old.session

\* one of ns, db, sc is in the variables under neither spelling
Missing(v) ==
    \E pair \in {{"NS", "ns"}, {"DB", "db"}, {"SC", "sc"}} :
        \A p \in v : p[1] \notin pair

\* C3: when ns, db or sc is missing from the variables, signup returns
\* InvalidAuth at once: no transaction is opened, get_sc and compute are not
\* called, and session and store are as they were.
C3_MissingVariable ==
    (InSignup /\ Missing(vars)) =>
        /\ pc = "done"
        /\ result = Err(InvalidAuth)
        /\ calls.tx = 0 /\ calls.get_sc = 0 /\ calls.compute = 0
        /\ sess = None /\ val = Pending
        /\ session = old.session
        /\ store = old.store

\* C3 witness: a call that gives ns and db but no sc has returned
C3_Witness ==
    /\ InSignup /\ pc = "done"
    /\ ObjectGet(vars, "NS") # None /\ ObjectGet(vars, "db") # None
    /\ ObjectGet(vars, "SC") = None /\ ObjectGet(vars, "sc") = None
    /\ result = Err(InvalidAuth)

\* C4: when signup returns a token, the session describes the new identity:
\* the actor has Level::Scope(ns, db, sc) and the identity of the record the
\* signup expression returned, session.ns/db/sc are the requested ones,
\* session.sd is the record, and the claims in session.tk (and in the token)
\* carry the same ns, db, sc and record id.
C4_SessionDescribesIdentity ==
    SignupSucceeded =>
        LET a == Unwrap(args)
            r == Unwrap(Record(val.val))
            tk == Unwrap(session.tk)
            token == Unwrap(result.val)
        IN  /\ session.au.level.kind = "Scope"
            /\ session.au.level.ns = Some(a.ns)
            /\ session.au.level.db = Some(a.db)
            /\ session.au.level.sc = Some(a.sc)
            /\ session.au.id = <<r.tb, ":", r.id>>
            /\ session.ns = Some(a.ns)
            /\ session.db = Some(a.db)
            /\ session.sc = Some(a.sc)
            /\ session.sd = Some([kind |-> "Thing", tb |-> r.tb, id |-> r.id])
            /\ tk.ns = a.ns /\ tk.db = a.db /\ tk.sc = a.sc
            /\ tk.id = session.au.id
            /\ token.claims.ns = Some(a.ns) /\ token.claims.db = Some(a.db)
            /\ token.claims.sc = Some(a.sc)
            /\ token.claims.id = Some(session.au.id)

\* C4 witness: a signup in a session that already had an identity returned a
\* token for another record
C4_Witness ==
    /\ SignupSucceeded
    /\ old.session.sd # None
    /\ old.session.sd # session.sd
    /\ session.au.level = LevelScope(Str("test"), Str("test"), Str("dflt"))

\* the scope's session duration in seconds, or one hour
DurationSecs(d) == IF d.session # None THEN Unwrap(d.session) \div 1000 ELSE 3600

\* C5: in every token signup issues, exp = iat + D, D being the scope's
\* session duration in seconds or 3600, whenever the clock is read.
C5_ExpIsIatPlusDuration ==
    SignupSucceeded =>
        LET c == Unwrap(result.val).claims
        IN  Unwrap(c.exp) = Unwrap(c.iat) + DurationSecs(Unwrap(sv))

\* no scope of that name is defined with a signup expression
NoSignupScope(a) ==
    \A d \in DefinedScopes :
        (d.ns = a.ns /\ d.db = a.db /\ d.sc = a.sc) => d.signup = None

\* C6: if the scope does not exist or has no signup expression, signup fails
\* with InvalidAuth, compute is never invoked, no record is created and the
\* session is unchanged.
C6_NoSignupScope ==
    (InSignup /\ args # None /\ NoSignupScope(Unwrap(args))) =>
        /\ calls.compute = 0
        /\ store = old.store
        /\ session = old.session
        /\ pc = "done" => result = Err(InvalidAuth)


-----------------------------------------------------------------------------
(* Properties of DeleteStatement::compute *)

Accepted(v) == v.kind \in {"Table", "Thing", "Model", "Array", "Object"}

\* the index of the first target that is not of an accepted kind, or 0
FirstRefused(what) ==
    LET bad == {k \in 1..Len(what) : ~Accepted(what[k])}
    IN  IF bad = {} THEN 0 ELSE CHOOSE k \in bad : \A j \in bad : k <= j

Elems(q) == {q[k] : k \in 1..Len(q)}

\* the records target v names are in the queue q
Queued(v, q) ==
    CASE v.kind = "Table" -> {t \in old.store : t.tb = v.tb} \subseteq Elems(q)
      [] v.kind = "Thing" -> [tb |-> v.tb, id |-> v.id] \in Elems(q)
      [] v.kind = "Model" ->
            \A n \in v.lo .. v.hi : [tb |-> v.tb, id |-> n] \in Elems(q)
      [] v.kind = "Array" ->
            \A k \in 1..Len(v.items) :
                [tb |-> v.items[k].tb, id |-> v.items[k].id] \in Elems(q)
      [] v.kind = "Object" -> v.id \in Elems(q)

\* C7: every target that evaluates to a Table, Thing, Model, Array or Object
\* is queued on the iterator; the first target of another kind fails the
\* statement with DeleteStatementError carrying that value, no later target
\* is evaluated, output is not run and the store is as it was.
C7_TargetDispatch ==
    (InDelete /\ i # None) =>
        LET s == Unwrap(stm)
            k == FirstRefused(s.what)
            q == Unwrap(i).queue
        IN  /\ \A j \in 1..(w - 1) : Accepted(s.what[j]) /\ Queued(s.what[j], q)
            /\ (pc = "done" /\ k = 0) =>
                  /\ result.kind = "Ok"
                  /\ calls.eval = Len(s.what)
                  /\ w = Len(s.what) + 1
                  /\ calls.output = 1
            /\ k > 0 =>
                  /\ calls.eval <= k
                  /\ calls.output = 0
                  /\ pc # "del_output"
                  /\ store = old.store
            /\ (pc = "done" /\ k > 0) =>
                  /\ calls.eval = k
                  /\ w = k
                  /\ result.kind = "Err"
                  /\ s.what[k].kind # "Function" =>
                        result = Err(ErrorWith("DeleteStatementError", s.what[k]))

\* C7 witness: the second target was refused after the first had queued a
\* record that is in the store
C7_Witness ==
    /\ InDelete /\ pc = "done" /\ i # None
    /\ calls.eval = 2
    /\ result.kind = "Err"
    /\ Unwrap(result.err).error = "DeleteStatementError"
    /\ Elems(Unwrap(i).queue) \cap store # {}

\* C8: the permission gate is consulted exactly once for a statement, before
\* any target is evaluated or queued; when it refuses, the statement returns
\* its error with no target evaluated, nothing queued and the store as it was.
C8_GateOnceAndFirst ==
    /\ InDelete =>
        /\ calls.check = 1
        /\ i = None =>
              /\ pc = "done"
              /\ result = Err(Error("QueryPermissions"))
              /\ calls.eval = 0 /\ calls.output = 0
              /\ store = old.store
        /\ result = Err(Error("QueryPermissions")) => i = None
    /\ ~InDelete => calls.check = 0 /\ calls.eval = 0 /\ calls.output = 0

\* C8 witness: a statement of two targets ran to its output
C8_Witness ==
    /\ InDelete /\ pc = "done"
    /\ calls.eval = 2 /\ calls.output = 1 /\ calls.check = 1

\* C9: a statement with a TIMEOUT whose processing takes longer than that
\* ends with a timeout and leaves the store unchanged.
C9_TimeoutEnforced ==
    (/\ InDelete /\ pc = "done" /\ calls.output = 1
     /\ Unwrap(stm).timeout # None
     /\ Elapsed(Unwrap(i).queue) > Unwrap(Unwrap(stm).timeout)) =>
        /\ result = Err(Error("QueryTimeout"))
        /\ store = old.store

\* C10: the value compute returns is rendered in the statement's output
\* mode, and is no output when the statement has no RETURN clause.
C10_OutputMode ==
    (InDelete /\ pc = "done" /\ calls.output = 1) =>
        LET s == Unwrap(stm)
            deleted == Iterate(Unwrap(i).queue, old.store, s.cond)[1]
        IN  result = Ok(Render(s.output, deleted))


-----------------------------------------------------------------------------
(* Further properties of signup *)

\* the value the variables give under the upper-case key, or else under the
\* lower-case key; the variables give one of the two
Given(v, upper, lower) ==
    IF \E p \in v : p[1] = upper
    THEN (CHOOSE p \in v : p[1] = upper)[2]
    ELSE (CHOOSE p \in v : p[1] = lower)[2]

\* the text of a value as signup takes it: its characters, without quotes
RawText(x) == <<x.s>>

\* C13: ns, db and sc are each taken from the upper-case key, and from the
\* lower-case key only when the upper-case key is absent; the variables,
\* those keys and any other included, are handed unchanged to the signup
\* expression.
C13_UpperCaseFirst ==
    /\ (InSignup /\ ~Missing(vars)) =>
          /\ args # None
          /\ Unwrap(args).ns = RawText(Given(vars, "NS", "ns"))
          /\ Unwrap(args).db = RawText(Given(vars, "DB", "db"))
          /\ Unwrap(args).sc = RawText(Given(vars, "SC", "sc"))
    /\ (InSignup /\ calls.get_sc = 1 /\ sv # None /\ Unwrap(sv).signup # None) =>
          bound = Some(vars)
    /\ (InSignup /\ calls.compute = 1) =>
          /\ bound = Some(vars)
          /\ <<"pass", Strand("secret")>> \in Unwrap(bound)

\* C13 witness: ns and sc were given in both spellings with different
\* values, and the signup expression has been computed
C13_Witness ==
    /\ InSignup /\ calls.compute = 1
    /\ ObjectGet(vars, "NS") # None /\ ObjectGet(vars, "ns") # None
    /\ ObjectGet(vars, "NS") # ObjectGet(vars, "ns")
    /\ ObjectGet(vars, "SC") # None /\ ObjectGet(vars, "sc") # None
    /\ Unwrap(args).ns = Str("test")


\* the session holds the identity of this call and nothing of an earlier one
NewIdentity ==
    LET a == Unwrap(args)
        r == Unwrap(Record(val.val))
        tk == Unwrap(session.tk)
    IN  /\ session.ns = Some(a.ns) /\ session.db = Some(a.db)
        /\ session.sc = Some(a.sc)
        /\ session.sd = Some([kind |-> "Thing", tb |-> r.tb, id |-> r.id])
        /\ session.au = [id |-> <<r.tb, ":", r.id>>, roles |-> <<>>,
                         level |-> [kind |-> "Scope", ns |-> Some(a.ns),
                                    db |-> Some(a.db), sc |-> Some(a.sc)]]
        /\ session.tk # None
        /\ DOMAIN tk = {"iss", "iat", "nbf", "exp", "ns", "db", "sc", "id"}
        /\ tk.iss = SERVER_NAME
        /\ tk.ns = a.ns /\ tk.db = a.db /\ tk.sc = a.sc
        /\ tk.id = <<r.tb, ":", r.id>>

ComputedRecord == val.kind = "Ok" /\ Record(val.val) # None

\* C14 as stated: the signup expression runs under an editor session of the
\* requested ns and db, and the outcome, the resulting session included, is
\* the same whatever the caller's session was before: it is the one a caller
\* with a new session gets.
C14_SameForAnyCaller ==
    /\ (InSignup /\ sess # None) =>
          sess = Some(SessionEditor(Unwrap(args).ns, Unwrap(args).db))
    /\ (InSignup /\ pc = "done") =>
          IF ComputedRecord THEN NewIdentity ELSE session = SessionDefault

\* C14 amended: the signup expression runs under an editor session of the
\* requested ns and db, never the caller's; when the session is written it
\* holds nothing of the caller's earlier session, and the token names only
\* the scope, the record and the clock; when signup fails before that, the
\* session is the caller's earlier one.
C14_EditorSession ==
    /\ (InSignup /\ sess # None) =>
          /\ sess = Some([tk |-> None, ns |-> Some(Unwrap(args).ns),
                          db |-> Some(Unwrap(args).db), sc |-> None, sd |-> None,
                          au |-> [id |-> Str("editor"), roles |-> <<"Editor">>,
                                  level |-> [kind |-> "Database",
                                             ns |-> Some(Unwrap(args).ns),
                                             db |-> Some(Unwrap(args).db),
                                             sc |-> None]]])
          /\ calls.get_sc = 1
    /\ (InSignup /\ calls.compute = 1) => sess # None
    /\ (InSignup /\ pc = "done") =>
          IF ComputedRecord THEN NewIdentity ELSE session = old.session
    /\ SignupSucceeded =>
          LET token == Unwrap(result.val)
          IN  /\ token.header = HEADER
              /\ token.key = Unwrap(sv).code
              /\ ClaimsIntoValue(token.claims) = Unwrap(session.tk)

\* C14 witness: a caller that already had a scope identity signed up again
\* and got a token for another record
C14_Witness ==
    /\ SignupSucceeded
    /\ old.session.au.level.kind = "Scope"
    /\ old.session.au.id # session.au.id
    /\ sess # None /\ Unwrap(sess).au.id = Str("editor")


\* C15: signup is a linear sequence without retries: the transaction, get_sc
\* and compute are each called at most once, compute only after get_sc gave
\* a scope with a signup expression, the session is written only after
\* compute returned a value with a record identity, and a failure ends the
\* call.
C15_LinearNoRetry ==
    InSignup =>
        /\ calls.tx <= 1 /\ calls.get_sc <= 1 /\ calls.compute <= 1
        /\ calls.get_sc = 1 => (calls.tx = 1 /\ tx # None)
        /\ calls.compute = 1 =>
              /\ calls.get_sc = 1
              /\ sv # None /\ Unwrap(sv).signup # None
        /\ val # Pending => calls.compute = 1
        /\ session # old.session =>
              /\ calls.compute = 1 /\ ComputedRecord
              /\ pc = "done"
        /\ result.kind # "Pending" <=> pc = "done"
        /\ pc = "sc_tx" => calls = NoCalls
        /\ pc = "sc_get" => (calls.tx = 1 /\ calls.get_sc = 0)
        /\ pc = "sc_compute" => (calls.get_sc = 1 /\ calls.compute = 0)
        /\ pc = "sc_issue" => calls.compute = 1

\* C15 witness: a call went through every step once and returned a token
C15_Witness ==
    /\ SignupSucceeded
    /\ calls.tx = 1 /\ calls.get_sc = 1 /\ calls.compute = 1
    /\ session # old.session


\* C18: the actor is replaced whole, identity and Level::Scope together, and
\* the six session fields are written with no suspension point between them:
\* at every point of a call the session is either the one the call began
\* with or the complete new identity, never a part of it.
C18_WholesaleReplacement ==
    InSignup =>
        \/ session = old.session
        \/ /\ ComputedRecord
           /\ NewIdentity
           /\ session.au.roles = <<>>
           /\ pc = "done"

\* C18 witness: a session that held one scope identity now holds another,
\* with no field left of the first
C18_Witness ==
    /\ InSignup /\ pc = "done"
    /\ old.session.au.level.kind = "Scope"
    /\ session.au.id # old.session.au.id
    /\ session.au.level # old.session.au.level
    /\ session.sd # old.session.sd
    /\ session.sc # old.session.sc


\* C19: signup writes nothing to the store itself: its transaction is
\* read-only, the store changes only in the nested compute, and what compute
\* committed stays when signup fails afterwards.
C19_StoreChangesOnlyInCompute ==
    /\ [](InSignup =>
            /\ tx # None => (~Unwrap(tx).write /\ calls.tx = 1)
            /\ calls.compute = 0 => store = old.store)
    /\ [][InSignup' =>
            /\ store' # store => (pc = "sc_compute" /\ pc' = "sc_issue")
            /\ pc = "sc_issue" => store' = store]_allvars

\* C19 witness: compute committed a record and signup then failed; the
\* record is in the store
C19_Witness ==
    /\ SignupFailed
    /\ val.kind = "Ok"
    /\ store # old.store


\* C20: signup never returns Ok(None): every call ends in Ok(Some(token)) or
\* in an error.
C20_NeverOkNone ==
    (InSignup /\ pc = "done") =>
        \/ result.kind = "Err" /\ result.val = None /\ result.err # None
        \/ /\ result.kind = "Ok"
           /\ result.val # None
           /\ Unwrap(result.val).header = HEADER
           /\ Unwrap(result.val).claims.id # None

\* C20 witness: a call whose signup expression was computed returned a
\* token
C20_Witness ==
    /\ SignupSucceeded
    /\ result.val # None
    /\ calls.compute = 1


-----------------------------------------------------------------------------
(* Further properties of DeleteStatement::compute *)

\* the records one target resolves to, in their order
Resolved(v, st) ==
    CASE v.kind = "Table" -> ProcessTable(IteratorNew, st, v).queue
      [] v.kind = "Thing" -> <<[tb |-> v.tb, id |-> v.id]>>
      [] v.kind = "Model" -> ProcessModel(IteratorNew, st, v).queue
      [] v.kind = "Array" ->
            [k \in 1..Len(v.items) |-> [tb |-> v.items[k].tb, id |-> v.items[k].id]]
      [] v.kind = "Object" -> <<v.id>>

\* the records the first n targets resolve to, target after target
RECURSIVE ResolvedUpTo(_, _, _)
ResolvedUpTo(what, n, st) ==
    IF n = 0 THEN <<>>
    ELSE ResolvedUpTo(what, n - 1, st) \o Resolved(what[n], st)

\* C16: the targets are evaluated and queued in the order of the what list,
\* and the statement's condition is on the iterator before the first target
\* is queued, so the queue is in resolution order and every queued record is
\* subject to the condition.
C16_OrderAndFilter ==
    (InDelete /\ i # None) =>
        LET s == Unwrap(stm)
            it == Unwrap(i)
        IN  /\ it.cond = s.cond
            /\ calls.eval \in {w - 1, w}
            /\ it.queue = ResolvedUpTo(s.what, w - 1, old.store)
            /\ calls.output = 0 => store = old.store
            /\ calls.output = 1 =>
                  /\ store \subseteq old.store
                  /\ \A t \in old.store \ store :
                        t \in Elems(it.queue) /\ Matches(s.cond, t)
                  /\ \A t \in Elems(it.queue) \cap store : ~Matches(s.cond, t)

\* C16 witness: two targets of different kinds were queued one after the
\* other under a condition that one queued record met and another did not
C16_Witness ==
    /\ InDelete /\ pc = "done" /\ calls.output = 1
    /\ Len(Unwrap(stm).what) = 2
    /\ Unwrap(stm).what[1].kind # Unwrap(stm).what[2].kind
    /\ Unwrap(stm).cond # None
    /\ Len(Unwrap(i).queue) >= 2
    /\ Unwrap(i).queue[1] # Unwrap(i).queue[Len(Unwrap(i).queue)]
    /\ old.store # store
    /\ Elems(Unwrap(i).queue) \cap store # {}

-----------------------------------------------------------------------------
(* Properties of the delete parser and of Display *)

\* the statement given to the parser was accepted
Accepts == pc # "idle" /\ sql # <<>> /\ parsed.kind = "Ok"

\* the statement was accepted with the targets as they were written: no
\* keyword was read as a table
TargetsRead == Accepts /\ ShowWhats(parsed.val.out.what) = sql.what

\* the position in the clauses cs after one clause of the kind, if it is the
\* next one
Past(cs, p, kind) == IF p < Len(cs) /\ cs[p + 1].kind = kind THEN p + 1 ELSE p

\* the text of each character without its case
FoldText(t) == [k \in 1..Len(t) |-> Fold(t[k])]

\* C17: the clauses written after the targets are taken in the order WHERE,
\* RETURN, TIMEOUT, each once at most and each after a space: the statement
\* holds the condition only if WHERE comes first, the output only if RETURN
\* comes next, the timeout only if TIMEOUT comes after these, and a clause
\* that comes out of this order, or a second time, stays in the input with all
\* that follows it.
C17_ClausesInFixedOrder ==
    TargetsRead =>
        LET cs == sql.clauses
            s == parsed.val.out
            p1 == Past(cs, 0, "cond")
            p2 == Past(cs, p1, "output")
            p3 == Past(cs, p2, "timeout")
        IN  /\ (s.cond # None) = (p1 > 0)
            /\ (s.output # None) = (p2 > p1)
            /\ (s.timeout # None) = (p3 > p2)
            /\ s.cond # None => ShowCond(Unwrap(s.cond)) = cs[p1].text
            /\ s.output # None => ShowOutput(Unwrap(s.output)) = FoldText(cs[p2].text)
            /\ s.timeout # None => ShowTimeout(Unwrap(s.timeout)) = cs[p3].text
            /\ parsed.val.rest = ClauseText(SubSeq(cs, p3 + 1, Len(cs)))

\* TIMEOUT was written before RETURN: the statement has the timeout and no
\* output, and RETURN is left in the input
C17_Witness ==
    /\ TargetsRead
    /\ Len(sql.clauses) = 2
    /\ sql.clauses[1].kind = "timeout" /\ sql.clauses[2].kind = "output"
    /\ parsed.val.out.timeout # None /\ parsed.val.out.output = None
    /\ parsed.val.rest # <<>>


\* C11: when a statement has been accepted, written out by Display and the
\* text parsed again, the second parse succeeds and its statement equals the
\* first one.
C11_RoundTrip ==
    (pc = "done" /\ parsed.kind = "Ok") =>
        /\ again.kind = "Ok"
        /\ again.val.out = parsed.val.out


\* the statement `DELETE <targets>` and the statement `DELETE FROM <targets>`,
\* for the targets of the statement given
WithoutFrom == Delete(SqlText([sql EXCEPT !.from = <<>>, !.clauses = <<>>]))
WithFrom == Delete(SqlText([sql EXCEPT !.from = <<" ">> \o W_FROM, !.clauses = <<>>]))

\* C12: a statement accepted with none of the three clauses is written out as
\* DELETE, one space and its targets, and nothing after them; and for any
\* targets t, `DELETE FROM t` and `DELETE t` are both accepted, with equal
\* statements, each of them written out as `DELETE t`.
C12_NoClausesNoFrom ==
    /\ (pc \in {"shown", "done"} /\ TargetsRead /\ sql.clauses = <<>>) =>
           text = W_DELETE \o <<" ">> \o sql.what
    /\ (pc # "idle" /\ sql # <<>>) =>
           /\ WithFrom.kind = "Ok" /\ WithoutFrom.kind = "Ok"
           /\ WithFrom.val.out = WithoutFrom.val.out
           /\ Display(WithFrom.val.out) = W_DELETE \o <<" ">> \o sql.what
           /\ Display(WithoutFrom.val.out) = W_DELETE \o <<" ">> \o sql.what

====
